---------------------------- MODULE Spec2Model ----------------------------
(***************************************************************************)
(* Model of the ai4se-2024-setup repository: the data preparation cells of *)
(* examples/ai4se-fine-tuning.ipynb (tokenize, train_test_split, block     *)
(* packing through a batched map).                                         *)
(*                                                                         *)
(* Two specifications:                                                     *)
(*   SpecBlock  one call of block(data, block_size) on an arbitrary batch  *)
(*   Spec       the notebook cells run in order on an arbitrary list of    *)
(*              extracted functions                                        *)
(***************************************************************************)
EXTENDS Integers, Sequences, FiniteSets

VARIABLES
    pc,                 \* which cell / call comes next
    arg_data,           \* block(): data['input_ids'] of the batch passed in
    block_size,         \* block(): the block_size parameter
    ret,                \* block(): the returned dict, or NoValue
    functions,          \* cell 8: the formatted function snippets
    tokenized_data,     \* cell 13: rows {input_ids, labels}
    train_data,         \* cell 15: row indices of the train split, in order
    test_data,          \* cell 15: row indices of the test split, in order
    train_data_blocks,  \* cell 16: rows {input_ids, labels} of the train split
    test_data_blocks,   \* cell 16: rows {input_ids, labels} of the test split
    argv,               \* run.sh: the positional arguments of the last run
    AI_GROUP,           \* run.sh: exported variables of the last run
    AI_LOGIN,
    AI_GPU,
    AI_PORT,
    AI_CONTAINER_NAME,
    containers,         \* the docker host: the containers that exist
    epoch,              \* training loop: the loop variable of "for epoch"
    step,               \* training loop: batches of the running inner loop done
    ops_done,           \* training loop: statements done on the current batch
    mode,               \* model.train() / model.eval()
    optimizer_steps,    \* calls of optimizer.step() so far
    scheduler_steps,    \* calls of lr_scheduler.step() so far
    num_training_steps, \* the length the linear schedule was created with
    checkpoints,        \* the adapter checkpoint paths that exist on disk
    log                 \* every statement executed on a batch and every save, in order

runVars == <<argv, AI_GROUP, AI_LOGIN, AI_GPU, AI_PORT, AI_CONTAINER_NAME,
             containers>>

trainVars == <<epoch, step, ops_done, mode, optimizer_steps, scheduler_steps,
               num_training_steps, checkpoints, log>>

vars == <<pc, arg_data, block_size, ret, functions, tokenized_data,
          train_data, test_data, train_data_blocks, test_data_blocks,
          runVars, trainVars>>

blockVars == <<arg_data, block_size, ret>>
pipelineVars == <<functions, tokenized_data, train_data, test_data,
                  train_data_blocks, test_data_blocks>>

NoValue == "None"

\* the training cells have not run
TrainIdle ==
    /\ epoch = 0
    /\ step = 0
    /\ ops_done = 0
    /\ mode = NoValue
    /\ optimizer_steps = 0
    /\ scheduler_steps = 0
    /\ num_training_steps = 0
    /\ checkpoints = {}
    /\ log = <<>>

\* run.sh has not run
RunIdle ==
    /\ argv = <<>>
    /\ AI_GROUP = NoValue
    /\ AI_LOGIN = NoValue
    /\ AI_GPU = NoValue
    /\ AI_PORT = NoValue
    /\ AI_CONTAINER_NAME = NoValue
    /\ containers = {}

----------------------------------------------------------------------------
(* Bounds of the model *)

MaxRows == 2            \* rows in a batch handed to block() directly
MaxTotalLength == 5     \* tokens in a batch handed to block() directly
MaxBlockSize == 3       \* block_size ranges over 1..MaxBlockSize
MaxFunctions == 4       \* extracted functions in the dataset
MapBatchSize == 2       \* rows per batch of Dataset.map(batched=True); the
                        \* library default is 1000 and the notebook's train
                        \* split has 1265 rows, so it is smaller than a split

----------------------------------------------------------------------------
(* The tokenizer's special ids (GemmaTokenizer). *)

EosTokenId == 1
BosTokenId == 2

\* Token ids a batch handed to block() directly may hold.  The end-of-sequence
\* id is among them: every tokenized row ends with it, so genuine tokens and
\* padding cannot be told apart by value.
BlockTokens == {EosTokenId, 2, 3}

----------------------------------------------------------------------------
(* block(data, block_size) *)

RECURSIVE ConcatenateReversed(_)
\* mutant: the items are joined last to first
ConcatenateReversed(input_ids) ==
    IF input_ids = <<>> THEN <<>>
    ELSE ConcatenateReversed(Tail(input_ids)) \o Head(input_ids)

RECURSIVE Concatenate(_)
\* sum(data['input_ids'], [])
Concatenate(input_ids) ==
    IF input_ids = <<>> THEN <<>>
    ELSE Head(input_ids) \o Concatenate(Tail(input_ids))

\* truncated_length = (length // block_size) * block_size
TruncatedLength(length, bs) == (length \div bs) * bs

\* mutant: the slices start at every offset instead of every block_size-th
FullBlocksSliding(concatenated, bs) ==
    LET truncated_length == (Len(concatenated) \div bs) * bs
    IN  [k \in 1..(truncated_length \div bs) |->
            SubSeq(concatenated, k, k + bs - 1)]

\* [concatenated[i : i + block_size] for i in range(0, truncated_length, block_size)]
FullBlocks(concatenated, bs) ==
    LET truncated_length == TruncatedLength(Len(concatenated), bs)
    IN  [k \in 1..(truncated_length \div bs) |->
            SubSeq(concatenated, (k - 1) * bs + 1, k * bs)]

\* mutant: one pad token too few
PadLengthOffByOne(length, bs) == bs - (length % bs) - 1

\* pad_length = block_size - (length % block_size)
PadLength(length, bs) == bs - (length % bs)

\* mutant: the last block is added unconditionally
HasLastBlockAlways(pad_length, bs) == TRUE

\* if pad_length != block_size
HasLastBlock(pad_length, bs) == pad_length # bs

\* mutant: the remainder is added without its padding
LastBlockUnpadded(concatenated, bs) ==
    SubSeq(concatenated, (Len(concatenated) \div bs) * bs + 1, Len(concatenated))

\* concatenated[truncated_length:] + [tokenizer.eos_token_id] * pad_length
LastBlock(concatenated, bs) ==
    LET length == Len(concatenated)
    IN  SubSeq(concatenated, TruncatedLength(length, bs) + 1, length)
            \o [j \in 1..PadLength(length, bs) |-> EosTokenId]

\* blocked_ids after the "add last block with padding" step
BlockedIds(input_ids, bs) ==
    LET concatenated == Concatenate(input_ids)
    IN  IF HasLastBlock(PadLength(Len(concatenated), bs), bs)
        THEN Append(FullBlocks(concatenated, bs), LastBlock(concatenated, bs))
        ELSE FullBlocks(concatenated, bs)

\* mutant: the assertion is missing
AssertionSkipped(blocked_ids) == TRUE

\* assert len(blocked_ids) > 0
AssertionHolds(blocked_ids) == Len(blocked_ids) > 0

\* mutant: the labels are shifted left by one position (next-token targets)
BlockLabelsShifted(blocked_ids) ==
    [k \in 1..Len(blocked_ids) |-> Tail(blocked_ids[k]) \o <<-100>>]

\* 'labels': blocked_ids.copy()
BlockLabels(blocked_ids) == blocked_ids

\* the dict block() returns when the assertion holds
BlockResult(input_ids, bs) ==
    LET blocked_ids == BlockedIds(input_ids, bs)
    IN  [input_ids |-> blocked_ids, labels |-> BlockLabels(blocked_ids)]

----------------------------------------------------------------------------
(* tokenize(dataset_row) *)

\* The formatted snippets a dataset row may hold, as character sequences.
\* Contents may repeat between rows: the extractor keeps every
\* function_definition of every file, and two files may define the same one.
Snippets == { <<"d">>, <<"d", "e">>, <<"e", "d">> }

RECURSIVE Pieces(_)
\* the tokenizer's segmentation of a text: longest vocabulary piece first
\* (vocabulary: "d" -> 3, "e" -> 4, "de" -> 5)
Pieces(text) ==
    IF text = <<>> THEN <<>>
    ELSE IF Len(text) >= 2 /\ SubSeq(text, 1, 2) = <<"d", "e">>
         THEN <<5>> \o Pieces(SubSeq(text, 3, Len(text)))
         ELSE <<(IF Head(text) = "d" THEN 3 ELSE 4)>> \o Pieces(Tail(text))

\* tokenizer.encode(source): the beginning-of-sequence id, then the pieces
Encode(source) == <<BosTokenId>> \o Pieces(source)

\* labels = input_ids.copy()
TokenizeLabels(input_ids) == input_ids

\* mutant: the end-of-sequence id is not appended
TokenizeWithoutEos(source) ==
    [input_ids |-> Encode(source), labels |-> Encode(source)]

Tokenize(source) ==
    LET input_ids == Encode(source) \o <<EosTokenId>>
    IN  [input_ids |-> input_ids, labels |-> TokenizeLabels(input_ids)]

----------------------------------------------------------------------------
(* tokenized_data.train_test_split(test_size = 0.1, shuffle = True, seed = ...) *)

\* n_test = ceil(test_size * n_samples) with test_size = 0.1
NTest(n_samples) == (n_samples + 9) \div 10

\* n_train = n_samples - n_test (train_size is None)
NTrain(n_samples) == n_samples - NTest(n_samples)

\* the shuffles of range(n_samples); the seed fixes one of them
Permutations(n) ==
    {f \in [1..n -> 1..n] : \A i \in 1..n : \A j \in 1..n : f[i] = f[j] => i = j}

\* test_indices = permutation[:n_test]
TestIndices(permutation, n_test, n_train) == SubSeq(permutation, 1, n_test)

\* mutant: the train indices are taken from the start of the permutation
TrainIndicesFromStart(permutation, n_test, n_train) ==
    SubSeq(permutation, 1, n_train)

\* train_indices = permutation[n_test : n_test + n_train]
TrainIndices(permutation, n_test, n_train) ==
    SubSeq(permutation, n_test + 1, n_test + n_train)

----------------------------------------------------------------------------
(* dataset.map(block, batched=True) *)

\* mutant: the map runs over all of tokenized_data instead of the split
InputIdsOfAllRows(indices) ==
    [i \in 1..Len(tokenized_data) |-> tokenized_data[i].input_ids]

\* the input_ids column of the rows a split selects, in the split's order
InputIdsOf(indices) == [i \in 1..Len(indices) |-> tokenized_data[indices[i]].input_ids]

\* number of batches the map cuts n rows into
NumBatches(n, batch_size) == (n + batch_size - 1) \div batch_size

\* the k-th batch (from 1) of a column
Batch(column, k, batch_size) ==
    SubSeq(column, (k - 1) * batch_size + 1,
           IF k * batch_size < Len(column) THEN k * batch_size ELSE Len(column))

\* whether block() passes its assertion on every batch
MapSucceeds(column, bs, batch_size) ==
    \A k \in 1..NumBatches(Len(column), batch_size) :
        AssertionHolds(BlockedIds(Batch(column, k, batch_size), bs))

\* the dict of one block() call as dataset rows
RowsOf(result) ==
    [i \in 1..Len(result.input_ids) |->
        [input_ids |-> result.input_ids[i], labels |-> result.labels[i]]]

RECURSIVE MapFrom(_, _, _, _)
\* the rows the map writes for batches k, k+1, ...
MapFrom(column, k, bs, batch_size) ==
    IF k > NumBatches(Len(column), batch_size) THEN <<>>
    ELSE RowsOf(BlockResult(Batch(column, k, batch_size), bs))
             \o MapFrom(column, k + 1, bs, batch_size)

\* split.map(block, batched=True): block() once per batch, results appended
MapBlock(column, bs) == MapFrom(column, 1, bs, MapBatchSize)

----------------------------------------------------------------------------
(* SpecBlock: one direct call of block() *)

\* A batch of n rows holding the stream s, cut into rows at the given offsets.
Rows(s, n, cuts) ==
    [i \in 1..n |->
        SubSeq(s, (IF i = 1 THEN 0 ELSE cuts[i - 1]) + 1,
                  IF i = n THEN Len(s) ELSE cuts[i])]

NonDecreasing(f, n) == \A i \in 1..n : \A j \in 1..n : i <= j => f[i] <= f[j]

InitBlock ==
    /\ pc = "call_block"
    /\ block_size \in 1..MaxBlockSize
    /\ \E n \in 0..MaxRows :
       \E len \in (IF n = 0 THEN {0} ELSE 0..MaxTotalLength) :
       \E s \in [1..len -> BlockTokens] :
       \E cuts \in [1..(n - 1) -> 0..len] :
          /\ NonDecreasing(cuts, n - 1)
          /\ arg_data = Rows(s, n, cuts)
    /\ ret = NoValue
    /\ functions = <<>>
    /\ tokenized_data = <<>>
    /\ train_data = <<>>
    /\ test_data = <<>>
    /\ train_data_blocks = <<>>
    /\ test_data_blocks = <<>>
    /\ RunIdle
    /\ TrainIdle

\* block() runs to its return statement
BlockReturn ==
    /\ pc = "call_block"
    /\ AssertionHolds(BlockedIds(arg_data, block_size))
    /\ ret' = BlockResult(arg_data, block_size)
    /\ pc' = "block_returned"
    /\ UNCHANGED <<arg_data, block_size>>
    /\ UNCHANGED pipelineVars
    /\ UNCHANGED runVars
    /\ UNCHANGED trainVars

\* block() stops at "assert len(blocked_ids) > 0"
BlockAssertionError ==
    /\ pc = "call_block"
    /\ ~AssertionHolds(BlockedIds(arg_data, block_size))
    /\ pc' = "AssertionError"
    /\ UNCHANGED blockVars
    /\ UNCHANGED pipelineVars
    /\ UNCHANGED runVars
    /\ UNCHANGED trainVars

NextBlock == BlockReturn \/ BlockAssertionError

SpecBlock == InitBlock /\ [][NextBlock]_vars

----------------------------------------------------------------------------
(* Spec: the data preparation cells of the notebook, in cell order *)

Init ==
    /\ pc = "tokenize"
    /\ \E n \in 0..MaxFunctions : functions \in [1..n -> Snippets]
    /\ block_size \in 1..MaxBlockSize
    /\ arg_data = <<>>
    /\ ret = NoValue
    /\ tokenized_data = <<>>
    /\ train_data = <<>>
    /\ test_data = <<>>
    /\ train_data_blocks = <<>>
    /\ test_data_blocks = <<>>
    /\ RunIdle
    /\ TrainIdle

\* tokenized_data = data.map(tokenize, remove_columns=['source'])
TokenizeData ==
    /\ pc = "tokenize"
    /\ tokenized_data' = [i \in 1..Len(functions) |-> Tokenize(functions[i])]
    /\ pc' = "split"
    /\ UNCHANGED <<functions, train_data, test_data, train_data_blocks,
                   test_data_blocks>>
    /\ UNCHANGED blockVars
    /\ UNCHANGED runVars
    /\ UNCHANGED trainVars

\* split_dataset = tokenized_data.train_test_split(...)
SplitDataset ==
    /\ pc = "split"
    /\ NTrain(Len(tokenized_data)) > 0
    /\ \E permutation \in Permutations(Len(tokenized_data)) :
         LET n_test == NTest(Len(tokenized_data))
             n_train == NTrain(Len(tokenized_data))
         IN  /\ test_data' = TestIndices(permutation, n_test, n_train)
             /\ train_data' = TrainIndices(permutation, n_test, n_train)
    /\ pc' = "block"
    /\ UNCHANGED <<functions, tokenized_data, train_data_blocks, test_data_blocks>>
    /\ UNCHANGED blockVars
    /\ UNCHANGED runVars
    /\ UNCHANGED trainVars

\* train_test_split raises: the resulting train set would be empty
SplitValueError ==
    /\ pc = "split"
    /\ NTrain(Len(tokenized_data)) = 0
    /\ pc' = "ValueError"
    /\ UNCHANGED pipelineVars
    /\ UNCHANGED blockVars
    /\ UNCHANGED runVars
    /\ UNCHANGED trainVars

\* test_data_blocks = test_data.map(block, batched=True)
\* train_data_blocks = train_data.map(block, batched=True)
BlockSplits ==
    /\ pc = "block"
    /\ IF ~MapSucceeds(InputIdsOf(test_data), block_size, MapBatchSize)
       THEN /\ pc' = "AssertionError"
            /\ UNCHANGED <<test_data_blocks, train_data_blocks>>
       ELSE /\ test_data_blocks' = MapBlock(InputIdsOf(test_data), block_size)
            /\ IF ~MapSucceeds(InputIdsOf(train_data), block_size, MapBatchSize)
               THEN /\ pc' = "AssertionError"
                    /\ UNCHANGED train_data_blocks
               ELSE /\ train_data_blocks' = MapBlock(InputIdsOf(train_data), block_size)
                    /\ pc' = "blocked"
    /\ UNCHANGED <<functions, tokenized_data, train_data, test_data>>
    /\ UNCHANGED blockVars
    /\ UNCHANGED runVars
    /\ UNCHANGED trainVars

Next == TokenizeData \/ SplitDataset \/ SplitValueError \/ BlockSplits

Spec == Init /\ [][Next]_vars


----------------------------------------------------------------------------
(* Properties of one call of block(), checked under SpecBlock *)

RECURSIVE Flat(_)
\* the sequences of a list joined in list order
Flat(seqs) ==
    IF Len(seqs) = 0 THEN <<>>
    ELSE Flat(SubSeq(seqs, 1, Len(seqs) - 1)) \o seqs[Len(seqs)]

\* the concatenated input stream of the call and its length
Stream == Flat(arg_data)
total_length == Len(Stream)
Remainder == total_length % block_size

Returned == pc = "block_returned"

\* [tokenizer.eos_token_id] * n
Padding(n) == [j \in 1..n |-> EosTokenId]

\* C1: for a non-empty token stream and block_size > 0, every block that
\* block() returns has exactly block_size tokens, the last one included.
C1_EveryBlockHasBlockSize ==
    (Returned /\ total_length > 0 /\ block_size > 0) =>
        \A k \in 1..Len(ret.input_ids) : Len(ret.input_ids[k]) = block_size

\* a call that returned several blocks, the last of them a padded remainder
C1_Witness ==
    /\ Returned
    /\ Remainder > 0
    /\ Len(ret.input_ids) >= 2

\* C2: round trip: the returned blocks concatenated in order, cut to the first
\* total_length positions (the padding of the last block dropped), are the
\* input sequences concatenated in input order.
C2_RoundTrip ==
    Returned =>
        /\ Len(Flat(ret.input_ids)) >= total_length
        /\ SubSeq(Flat(ret.input_ids), 1, total_length) = Stream

\* two non-empty rows with different contents, packed into several blocks with padding
C2_Witness ==
    /\ Returned
    /\ Len(arg_data) = 2
    /\ arg_data[1] # <<>>
    /\ arg_data[2] # <<>>
    /\ arg_data[1] \o arg_data[2] # arg_data[2] \o arg_data[1]
    /\ Len(ret.input_ids) >= 2
    /\ Remainder > 0

\* C3: if total_length mod block_size = r > 0, exactly one block is padded: the
\* last one, made of the r trailing tokens of the stream followed by exactly
\* block_size - r end-of-sequence ids; the blocks before it hold the stream up
\* to these r tokens and nothing else.  With total_length < block_size it is
\* the only block.
C3_OnePaddedLastBlock ==
    (Returned /\ Remainder > 0) =>
        LET n == Len(ret.input_ids)
        IN  /\ n = (total_length \div block_size) + 1
            /\ ret.input_ids[n] =
                   SubSeq(Stream, total_length - Remainder + 1, total_length)
                       \o Padding(block_size - Remainder)
            /\ Flat(SubSeq(ret.input_ids, 1, n - 1)) =
                   SubSeq(Stream, 1, total_length - Remainder)
            /\ (total_length < block_size => n = 1)

\* a stream shorter than one block: the padded block is the only one
C3_Witness ==
    /\ Returned
    /\ total_length > 0
    /\ total_length < block_size
    /\ Len(ret.input_ids) = 1
    /\ Stream[total_length] # EosTokenId

\* C4: if total_length is a positive exact multiple of block_size, block()
\* returns exactly total_length / block_size blocks, which hold the stream and
\* nothing else: no remainder block, no padding.
C4_ExactMultipleNoPadding ==
    (Returned /\ total_length > 0 /\ Remainder = 0) =>
        /\ Len(ret.input_ids) = total_length \div block_size
        /\ Flat(ret.input_ids) = Stream

\* the shape of the example [[1,2,3,4]], block_size 2 -> [[1,2],[3,4]]
C4_Witness ==
    /\ Returned
    /\ block_size = 2
    /\ arg_data = << <<2, 3, 3, 2>> >>
    /\ ret.input_ids = << <<2, 3>>, <<3, 2>> >>

\* C5: with total_length = 0 (no rows, or only empty rows) block() ends in its
\* AssertionError and returns nothing.
C5_EmptyInputFails ==
    (total_length = 0 /\ pc # "call_block") =>
        /\ pc = "AssertionError"
        /\ ret = NoValue

\* block() was called on rows that are all empty and raised
C5_Witness ==
    /\ pc = "AssertionError"
    /\ arg_data = << <<>>, <<>> >>

\* C9: the full blocks are the consecutive slices of the stream: there are
\* total_length div block_size of them, the i-th (from 0) is
\* stream[i*block_size .. (i+1)*block_size - 1], and they are followed by the
\* remainder block exactly when total_length mod block_size > 0.
C9_FullBlocksAreSlices ==
    Returned =>
        LET full == total_length \div block_size
        IN  /\ Len(ret.input_ids) = full + (IF Remainder > 0 THEN 1 ELSE 0)
            /\ \A i \in 0..(full - 1) :
                   ret.input_ids[i + 1] =
                       SubSeq(Stream, i * block_size + 1, (i + 1) * block_size)
            /\ Remainder > 0 =>
                   ret.input_ids[full + 1] =
                       SubSeq(Stream, full * block_size + 1, total_length)
                           \o Padding(block_size - Remainder)

\* the shape of the example [[1,2,3],[4,5]], block_size 2 -> [[1,2],[3,4],[5,pad]]
C9_Witness ==
    /\ Returned
    /\ block_size = 2
    /\ arg_data = << <<2, 3, 3>>, <<2, 2>> >>
    /\ ret.input_ids = << <<2, 3>>, <<3, 2>>, <<2, EosTokenId>> >>

----------------------------------------------------------------------------
(* Properties of the data preparation cells, checked under Spec *)

Blocked == pc = "blocked"

\* the token stream of a split: its rows' input_ids in the split's order
SplitStream(indices) == Flat(InputIdsOf(indices))

\* the input_ids column of a blocked split
BlockColumn(rows) == [i \in 1..Len(rows) |-> rows[i].input_ids]

\* Every block of a split but the final one is a slice of block_size genuine
\* tokens of the split's stream, and the final one is padded only when the
\* split's token count is not a multiple of block_size.
OnlyFinalBlockPadded(indices, rows) ==
    LET stream == SplitStream(indices)
        total == Len(stream)
        full == total \div block_size
        r == total % block_size
    IN  /\ Len(rows) = full + (IF r > 0 THEN 1 ELSE 0)
        /\ \A i \in 0..(full - 1) :
               rows[i + 1].input_ids =
                   SubSeq(stream, i * block_size + 1, (i + 1) * block_size)
        /\ r > 0 =>
               rows[full + 1].input_ids =
                   SubSeq(stream, full * block_size + 1, total)
                       \o Padding(block_size - r)

\* C6: after block packing, in each of test_data_blocks and train_data_blocks
\* only the final block of the split is padded, and only when the split's
\* token count is not a multiple of block_size, also for a split that the
\* map processes in more than one batch.
C6_OnlyFinalBlockOfSplitPadded ==
    Blocked =>
        /\ OnlyFinalBlockPadded(test_data, test_data_blocks)
        /\ OnlyFinalBlockPadded(train_data, train_data_blocks)

\* C7: every row that block() writes has labels equal, token for token, to its
\* input_ids, and so has every row that tokenize() writes.
C7_LabelsEqualInputIds ==
    /\ \A i \in 1..Len(tokenized_data) :
           tokenized_data[i].labels = tokenized_data[i].input_ids
    /\ \A i \in 1..Len(train_data_blocks) :
           train_data_blocks[i].labels = train_data_blocks[i].input_ids
    /\ \A i \in 1..Len(test_data_blocks) :
           test_data_blocks[i].labels = test_data_blocks[i].input_ids

\* both splits packed, the train split into several blocks
C7_Witness ==
    /\ Blocked
    /\ Len(tokenized_data) >= 2
    /\ Len(train_data_blocks) >= 2
    /\ Len(test_data_blocks) >= 1

Range(seq) == {seq[i] : i \in 1..Len(seq)}

----------------------------------------------------------------------------
(* run.sh *)

MaxGroup == 8           \* "SET AI_GROUP TO YOUR GROUP NUMBER (1 - 8)"
NumGpus == 4            \* AI_GPU=$((AI_GROUP % 4))
PortBase == 8000        \* AI_PORT=$((8000 + AI_GROUP))
MaxContainers == 2      \* containers the modelled docker host holds at once

DigitChars == <<"0", "1", "2", "3", "4", "5", "6", "7", "8", "9">>

RECURSIVE DecimalString(_)
\* a group number as it is typed on the command line
DecimalString(n) ==
    IF n < 10 THEN <<DigitChars[n + 1]>>
    ELSE DecimalString(n \div 10) \o <<DigitChars[(n % 10) + 1]>>

DigitValue(c) == CHOOSE d \in 0..9 : DigitChars[d + 1] = c

RECURSIVE ArithValue(_)
\* the value bash arithmetic gives a variable holding a decimal string
ArithValue(str) ==
    IF str = <<>> THEN 0
    ELSE 10 * ArithValue(SubSeq(str, 1, Len(str) - 1)) + DigitValue(str[Len(str)])

\* export AI_GROUP=1 / export AI_LOGIN=set_notebook_password
DefaultGroup == <<"1">>
DefaultLogin == "set_notebook_password"

\* the access tokens a user may pass, and what a surplus argument may be
LoginArgs == {DefaultLogin, "tokenA", "tokenB"}
GroupArgs == {DecimalString(x) : x \in 1..MaxGroup}
ArgVectors ==
    {<<>>}
        \cup {<<g>> : g \in GroupArgs}
        \cup {<<g, l>> : g \in GroupArgs, l \in LoginArgs}
        \cup {<<g, l, "extra">> : g \in GroupArgs, l \in LoginArgs}

\* mutant: the group is taken from the command line only with two arguments
GroupOfTwoArgsOnly(args) ==
    IF Len(args) = 2 THEN args[1] ELSE DefaultGroup

\* AI_GROUP after the two "if [[ $# -eq ... ]]" blocks
GroupOf(args) ==
    IF Len(args) = 1 THEN args[1]
    ELSE IF Len(args) = 2 THEN args[1]
    ELSE DefaultGroup

\* AI_LOGIN after the two "if [[ $# -eq ... ]]" blocks
LoginOf(args) ==
    IF Len(args) = 2 THEN args[2] ELSE DefaultLogin

\* mutant: the GPU is taken from the group number itself
GpuOfGroupNumber(group) == ArithValue(group)

\* export AI_GPU=$((AI_GROUP % 4))
GpuOf(group) == ArithValue(group) % NumGpus

\* mutant: the port offset is the GPU index
PortOfGpu(group) == PortBase + (ArithValue(group) % NumGpus)

\* export AI_PORT=$((8000 + AI_GROUP))
PortOf(group) == PortBase + ArithValue(group)

\* export AI_CONTAINER_NAME=ai4se-$AI_GROUP
ContainerNameOf(group) == <<"a", "i", "4", "s", "e", "-">> \o group

\* the container "docker run -d --name ai4se-$AI_GROUP --gpus device=$AI_GPU
\* -p 0.0.0.0:$AI_PORT:8888 ... -e LOGIN=$AI_LOGIN ai4se" creates; it starts
\* only if its host port is free
NewContainer(group, login, host) ==
    [name |-> ContainerNameOf(group),
     gpus |-> GpuOf(group),
     port |-> PortOf(group),
     LOGIN |-> login,
     running |-> \A c \in host : ~c.running \/ c.port # PortOf(group)]

\* docker run fails when the name is already in use, and creates nothing
DockerRun(group, login, host) ==
    IF \E c \in host : c.name = ContainerNameOf(group)
    THEN host
    ELSE host \cup {NewContainer(group, login, host)}

InitRun ==
    /\ pc = "shell"
    /\ RunIdle
    /\ TrainIdle
    /\ arg_data = <<>>
    /\ block_size = 1
    /\ ret = NoValue
    /\ functions = <<>>
    /\ tokenized_data = <<>>
    /\ train_data = <<>>
    /\ test_data = <<>>
    /\ train_data_blocks = <<>>
    /\ test_data_blocks = <<>>

\* one run of run.sh with the given arguments, first line to last
RunScript ==
    /\ pc = "shell"
    /\ Cardinality(containers) < MaxContainers
    /\ \E args \in ArgVectors :
         /\ argv' = args
         /\ AI_GROUP' = GroupOf(args)
         /\ AI_LOGIN' = LoginOf(args)
         /\ AI_GPU' = GpuOf(GroupOf(args))
         /\ AI_PORT' = PortOf(GroupOf(args))
         /\ AI_CONTAINER_NAME' = ContainerNameOf(GroupOf(args))
         /\ containers' = DockerRun(GroupOf(args), LoginOf(args), containers)
    /\ UNCHANGED pc
    /\ UNCHANGED blockVars
    /\ UNCHANGED pipelineVars
    /\ UNCHANGED trainVars

\* sudo docker rm ai4se-<GROUP>
DockerRm ==
    /\ pc = "shell"
    /\ \E c \in containers : containers' = containers \ {c}
    /\ UNCHANGED <<pc, argv, AI_GROUP, AI_LOGIN, AI_GPU, AI_PORT, AI_CONTAINER_NAME>>
    /\ UNCHANGED blockVars
    /\ UNCHANGED pipelineVars
    /\ UNCHANGED trainVars

NextRun == RunScript \/ DockerRm

SpecRun == InitRun /\ [][NextRun]_vars

----------------------------------------------------------------------------
(* Properties of run.sh, checked under SpecRun *)

\* the container that exists for group x, if any
ContainersOfGroup(x) ==
    {c \in containers : c.name = <<"a", "i", "4", "s", "e", "-">> \o DecimalString(x)}

\* the last run of run.sh was for group x and created its container
LaunchedFor(x) ==
    /\ Len(argv) \in {1, 2}
    /\ argv[1] = DecimalString(x)
    /\ ContainersOfGroup(x) # {}

\* C11: for every group number x in 1..8, a container launched by run.sh for
\* group x publishes the notebook server on host port 8000 + x and is given
\* GPU index x mod 4.
C11_PortAndGpuOfGroup ==
    \A x \in 1..8 :
        /\ \A c \in ContainersOfGroup(x) :
               /\ c.port = 8000 + x
               /\ c.gpus = x % 4
        /\ (Len(argv) \in {1, 2} /\ argv[1] = DecimalString(x)) =>
               /\ AI_PORT = 8000 + x
               /\ AI_GPU = x % 4

\* run.sh was run for group 8 and its container exists: port 8008, GPU 0
C11_Witness ==
    /\ LaunchedFor(8)
    /\ \E c \in ContainersOfGroup(8) : c.port = 8008 /\ c.gpus = 0

NamePrefix == <<"a", "i", "4", "s", "e", "-">>

\* what the arguments of a run must give, read off the claim
ExpectedGroup(args) ==
    IF Len(args) = 0 THEN <<"1">>
    ELSE IF Len(args) \in {1, 2} THEN args[1]
    ELSE <<"1">>

ExpectedLogin(args) ==
    IF Len(args) = 2 THEN args[2] ELSE "set_notebook_password"

\* C13: in every run of run.sh, with no argument the group is 1 and the login
\* token the script default; with exactly one argument the group is that
\* argument and the login token the default; with exactly two arguments the
\* group is the first and the login token the second; and the container the
\* run creates has its name and its LOGIN variable derived from these values.
C13_ArgumentHandling ==
    [][ (containers \subseteq containers') =>
            /\ (Len(argv') = 0 =>
                    AI_GROUP' = <<"1">> /\ AI_LOGIN' = "set_notebook_password")
            /\ (Len(argv') = 1 =>
                    AI_GROUP' = argv'[1] /\ AI_LOGIN' = "set_notebook_password")
            /\ (Len(argv') = 2 =>
                    AI_GROUP' = argv'[1] /\ AI_LOGIN' = argv'[2])
            /\ AI_CONTAINER_NAME' = NamePrefix \o ExpectedGroup(argv')
            /\ \A c \in containers' \ containers :
                   /\ c.name = NamePrefix \o ExpectedGroup(argv')
                   /\ c.LOGIN = ExpectedLogin(argv')
      ]_vars

\* a run with two arguments created the container of group 3 with the given token
C13_Witness ==
    /\ argv = << <<"3">>, "tokenA" >>
    /\ AI_GROUP = <<"3">>
    /\ AI_LOGIN = "tokenA"
    /\ \E c \in containers : c.name = NamePrefix \o <<"3">> /\ c.LOGIN = "tokenA"

\* C17: for any two distinct group numbers in 1..8 run.sh derives different
\* host ports and different container names, so the containers of two groups
\* never collide on a port or a name: all containers on the host differ
\* pairwise in both and all of them could start.  The GPU index always lies
\* in 0..3 (and may be shared).
C17_NoPortOrNameCollision ==
    /\ \A x \in 1..8 : \A y \in 1..8 :
           x # y =>
               /\ PortOf(DecimalString(x)) # PortOf(DecimalString(y))
               /\ ContainerNameOf(DecimalString(x)) # ContainerNameOf(DecimalString(y))
    /\ \A c1 \in containers : \A c2 \in containers :
           c1 # c2 => (c1.name # c2.name /\ c1.port # c2.port)
    /\ \A c \in containers : c.running /\ c.gpus \in 0..3

\* the containers of groups 1 and 5 exist side by side and share GPU 1
C17_Witness ==
    /\ \E c1 \in ContainersOfGroup(1) : \E c2 \in ContainersOfGroup(5) :
           /\ c1.gpus = c2.gpus
           /\ c1.port # c2.port
           /\ c1.running
           /\ c2.running

----------------------------------------------------------------------------
(* Further properties of the data preparation cells, checked under Spec *)

\* C15: every token sequence tokenize() produces is non-empty and ends with
\* the end-of-sequence id, so every batch of rows handed to block() has
\* total_length >= 1, the assertion in block() never fails in the notebook,
\* and each packed split holds at least one block.
C15_TokenizedRowsEndWithEos ==
    /\ \A i \in 1..Len(tokenized_data) :
           LET ids == tokenized_data[i].input_ids
           IN  Len(ids) >= 1 /\ ids[Len(ids)] = EosTokenId
    /\ pc # "AssertionError"
    /\ Blocked =>
           /\ Len(Flat(InputIdsOf(train_data))) >= 1
           /\ Len(Flat(InputIdsOf(test_data))) >= 1
           /\ Len(train_data_blocks) >= 1
           /\ Len(test_data_blocks) >= 1

\* the shortest snippet was tokenized and both splits were packed
C15_Witness ==
    /\ Blocked
    /\ \E i \in 1..Len(functions) :
           Len(functions[i]) = 1 /\ Len(tokenized_data[i].input_ids) = 3
    /\ Len(test_data) = 1

\* Provenance: the tokens of row i, each marked with i (token + 100 * i);
\* a padding token keeps mark 0.
Marked(i) ==
    [k \in 1..Len(tokenized_data[i].input_ids) |->
        tokenized_data[i].input_ids[k] + 100 * i]

MarkedColumn(indices) == [j \in 1..Len(indices) |-> Marked(indices[j])]

Unmark(column) ==
    [b \in 1..Len(column) |-> [k \in 1..Len(column[b]) |-> column[b][k] % 100]]

\* the rows whose tokens a block holds
RowsIn(marked_block) ==
    {marked_block[k] \div 100 : k \in 1..Len(marked_block)} \ {0}

\* how many tokens of row i the blocks of a column hold
TokensOfRow(i, column) ==
    Len(SelectSeq(Flat(column), LAMBDA t : t \div 100 = i))

\* the packing of a split with every token marked by its row
MarkedBlocks(indices) == BlockColumn(MapBlock(MarkedColumn(indices), block_size))

\* C16: the split is applied to whole tokenized examples before block packing
\* and each split is packed on its own: blocks exist only after the split, the
\* blocks of a split are the packing of that split's rows, no block holds
\* tokens of a train example together with tokens of a test example, and all
\* tokens of an example lie in the blocks of one split.
C16_SplitBeforePacking ==
    /\ (train_data_blocks # <<>> \/ test_data_blocks # <<>>) =>
           (Blocked /\ train_data # <<>> /\ test_data # <<>>)
    /\ Blocked =>
           LET train_marked == MarkedBlocks(train_data)
               test_marked == MarkedBlocks(test_data)
           IN  /\ Unmark(train_marked) = BlockColumn(train_data_blocks)
               /\ Unmark(test_marked) = BlockColumn(test_data_blocks)
               /\ \A b \in 1..Len(train_marked) :
                      RowsIn(train_marked[b]) \subseteq Range(train_data)
               /\ \A b \in 1..Len(test_marked) :
                      RowsIn(test_marked[b]) \subseteq Range(test_data)
               /\ Range(train_data) \cap Range(test_data) = {}
               /\ \A i \in 1..Len(tokenized_data) :
                      LET in_train == TokensOfRow(i, train_marked)
                          in_test == TokensOfRow(i, test_marked)
                      IN  /\ in_train + in_test = Len(tokenized_data[i].input_ids)
                          /\ in_train = 0 \/ in_test = 0

\* a train block holds tokens of two different train examples
C16_Witness ==
    /\ Blocked
    /\ Len(train_data) >= 2
    /\ \E b \in 1..Len(MarkedBlocks(train_data)) :
           Cardinality(RowsIn(MarkedBlocks(train_data)[b])) >= 2

----------------------------------------------------------------------------
(* The training loop *)

DataLoaderBatchSize == 4    \* batch_size = 4
NumEpochs == 2              \* num_epochs = 2
MaxTrainBlocks == 9         \* rows of train_data_blocks handed to the DataLoader
MaxTestBlocks == 5          \* rows of test_data_blocks handed to the DataLoader

\* len(DataLoader(dataset, batch_size=batch_size))
DataLoaderLen(dataset) ==
    (Len(dataset) + DataLoaderBatchSize - 1) \div DataLoaderBatchSize

\* num_training_steps=(len(train_dataloader) * num_epochs)
NumTrainingSteps == DataLoaderLen(train_data_blocks) * NumEpochs

\* mutant: the learning rate is updated before the weights
TrainStepOrderSchedulerFirst ==
    <<"forward", "loss.backward", "lr_scheduler.step", "optimizer.step",
      "optimizer.zero_grad">>

\* the statements of the body of "for step, batch in enumerate(train_dataloader)"
TrainStepOrder ==
    <<"forward", "loss.backward", "optimizer.step", "lr_scheduler.step",
      "optimizer.zero_grad">>

\* mutant: every epoch writes to the same path
CheckpointPathFixed(e) == <<"./my-checkpoint-ep", 0>>

\* f'./my-checkpoint-ep{epoch}'
CheckpointPath(e) == <<"./my-checkpoint-ep", e>>

\* a block as the DataLoader sees it; its contents do not steer the loop
SomeBlock == [input_ids |-> <<EosTokenId>>, labels |-> <<EosTokenId>>]

LogEntry(op) == [op |-> op, epoch |-> epoch, step |-> step, mode |-> mode]

InitTrain ==
    /\ pc = "create_schedule"
    /\ \E n \in 1..MaxTrainBlocks : train_data_blocks = [i \in 1..n |-> SomeBlock]
    /\ \E n \in 1..MaxTestBlocks : test_data_blocks = [i \in 1..n |-> SomeBlock]
    /\ TrainIdle
    /\ RunIdle
    /\ arg_data = <<>>
    /\ block_size = 1
    /\ ret = NoValue
    /\ functions = <<>>
    /\ tokenized_data = <<>>
    /\ train_data = <<>>
    /\ test_data = <<>>

trainLoopRest == <<arg_data, block_size, ret, functions, tokenized_data,
                   train_data, test_data, train_data_blocks, test_data_blocks,
                   runVars>>

\* lr_scheduler = get_linear_schedule_with_warmup(...)
CreateSchedule ==
    /\ pc = "create_schedule"
    /\ num_training_steps' = NumTrainingSteps
    /\ pc' = "for_epoch"
    /\ UNCHANGED <<epoch, step, ops_done, mode, optimizer_steps, scheduler_steps,
                   checkpoints, log>>
    /\ UNCHANGED trainLoopRest

\* for epoch in range(num_epochs): model.train(); total_loss = 0
EpochStart ==
    /\ pc = "for_epoch"
    /\ epoch < NumEpochs
    /\ mode' = "train"
    /\ step' = 0
    /\ ops_done' = 0
    /\ pc' = "train_loop"
    /\ UNCHANGED <<epoch, optimizer_steps, scheduler_steps, num_training_steps,
                   checkpoints, log>>
    /\ UNCHANGED trainLoopRest

\* one statement of the training loop body on the current batch
TrainStatement ==
    /\ pc = "train_loop"
    /\ step < DataLoaderLen(train_data_blocks)
    /\ LET op == TrainStepOrder[ops_done + 1]
       IN  /\ log' = Append(log, LogEntry(op))
           /\ optimizer_steps' =
                  IF op = "optimizer.step" THEN optimizer_steps + 1 ELSE optimizer_steps
           /\ scheduler_steps' =
                  IF op = "lr_scheduler.step" THEN scheduler_steps + 1 ELSE scheduler_steps
    /\ IF ops_done + 1 = Len(TrainStepOrder)
       THEN ops_done' = 0 /\ step' = step + 1
       ELSE ops_done' = ops_done + 1 /\ step' = step
    /\ UNCHANGED <<pc, epoch, mode, num_training_steps, checkpoints>>
    /\ UNCHANGED trainLoopRest

\* the training batches are exhausted: model.eval(); eval_loss = 0
StartEval ==
    /\ pc = "train_loop"
    /\ step = DataLoaderLen(train_data_blocks)
    /\ mode' = "eval"
    /\ step' = 0
    /\ pc' = "eval_loop"
    /\ UNCHANGED <<epoch, ops_done, optimizer_steps, scheduler_steps,
                   num_training_steps, checkpoints, log>>
    /\ UNCHANGED trainLoopRest

\* one evaluation batch: the forward pass under torch.no_grad()
EvalBatch ==
    /\ pc = "eval_loop"
    /\ step < DataLoaderLen(test_data_blocks)
    /\ log' = Append(log, LogEntry("forward"))
    /\ step' = step + 1
    /\ UNCHANGED <<pc, epoch, ops_done, mode, optimizer_steps, scheduler_steps,
                   num_training_steps, checkpoints>>
    /\ UNCHANGED trainLoopRest

\* the evaluation batches are exhausted: the epoch losses are printed and
\* peft_model.save_pretrained(f'./my-checkpoint-ep{epoch}') ends the epoch
SaveCheckpoint ==
    /\ pc = "eval_loop"
    /\ step = DataLoaderLen(test_data_blocks)
    /\ checkpoints' = checkpoints \cup {CheckpointPath(epoch)}
    /\ log' = Append(log, [op |-> "save_pretrained", epoch |-> epoch,
                           step |-> CheckpointPath(epoch), mode |-> mode])
    /\ epoch' = epoch + 1
    /\ pc' = "for_epoch"
    /\ UNCHANGED <<step, ops_done, mode, optimizer_steps, scheduler_steps,
                   num_training_steps>>
    /\ UNCHANGED trainLoopRest

\* range(num_epochs) is exhausted
LoopEnd ==
    /\ pc = "for_epoch"
    /\ epoch = NumEpochs
    /\ pc' = "trained"
    /\ UNCHANGED trainVars
    /\ UNCHANGED trainLoopRest

NextTrain ==
    \/ CreateSchedule
    \/ EpochStart
    \/ TrainStatement
    \/ StartEval
    \/ EvalBatch
    \/ SaveCheckpoint
    \/ LoopEnd

SpecTrain == InitTrain /\ [][NextTrain]_vars

----------------------------------------------------------------------------
(* Properties of the training loop, checked under SpecTrain *)

LenTrainLoader == DataLoaderLen(train_data_blocks)
LenEvalLoader == DataLoaderLen(test_data_blocks)
Trained == pc = "trained"

\* positions of the log
LogPos == 1..Len(log)

\* how many entries before position p satisfy Test
CountBefore(p, Test(_)) == Cardinality({q \in 1..(p - 1) : Test(log[q])})

IsSave(entry) == entry.op = "save_pretrained"
IsSaveOf(entry, e) == IsSave(entry) /\ entry.step = <<"./my-checkpoint-ep", e>>

\* C12: the epochs 0 .. num_epochs-1 run strictly one after another; the
\* checkpoint of epoch e is written to the path named by e at most once, only
\* after every training batch and every evaluation batch of epoch e has been
\* processed and before anything of epoch e+1; a complete run leaves exactly
\* num_epochs checkpoints, each written exactly once.
C12_CheckpointPerEpoch ==
    /\ \A p \in LogPos : \A q \in LogPos :
           p < q => log[p].epoch <= log[q].epoch
    /\ \A p \in LogPos :
           /\ log[p].epoch \in 0..(NumEpochs - 1)
           /\ IsSave(log[p]) => IsSaveOf(log[p], log[p].epoch)
           /\ log[p].epoch > 0 =>
                  \E q \in 1..(p - 1) : IsSaveOf(log[q], log[p].epoch - 1)
    /\ \A e \in 0..(NumEpochs - 1) :
           /\ Cardinality({p \in LogPos : IsSaveOf(log[p], e)}) <= 1
           /\ \A p \in LogPos :
                  IsSaveOf(log[p], e) =>
                      /\ CountBefore(p, LAMBDA x : x.epoch = e /\ x.mode = "train"
                                                    /\ x.op = "forward") = LenTrainLoader
                      /\ CountBefore(p, LAMBDA x : x.epoch = e /\ x.mode = "train"
                                                    /\ x.op = "optimizer.zero_grad") = LenTrainLoader
                      /\ CountBefore(p, LAMBDA x : x.epoch = e /\ x.mode = "eval"
                                                    /\ x.op = "forward") = LenEvalLoader
                      /\ \A q \in LogPos : q > p => log[q].epoch > e
    /\ checkpoints = {log[p].step : p \in {q \in LogPos : IsSave(log[q])}}
    /\ Trained =>
           /\ \A e \in 0..(NumEpochs - 1) :
                  Cardinality({p \in LogPos : IsSaveOf(log[p], e)}) = 1
           /\ checkpoints = {<<"./my-checkpoint-ep", e>> : e \in 0..(NumEpochs - 1)}
           /\ Cardinality(checkpoints) = NumEpochs

\* a complete run with several training and several evaluation batches per epoch
C12_Witness ==
    /\ Trained
    /\ LenTrainLoader >= 2
    /\ LenEvalLoader >= 2
    /\ Cardinality(checkpoints) = 2

\* the order the claim gives for the statements on one training batch
ExpectedBatchOrder ==
    <<"forward", "loss.backward", "optimizer.step", "lr_scheduler.step",
      "optimizer.zero_grad">>

\* the statements logged for training batch s of epoch e, in order
BatchOps(e, s) ==
    LET entries == SelectSeq(log, LAMBDA x : x.epoch = e /\ x.mode = "train"
                                              /\ x.step = s)
    IN  [k \in 1..Len(entries) |-> entries[k].op]

\* C14: every training batch goes through forward pass, loss.backward(),
\* optimizer.step(), lr_scheduler.step(), optimizer.zero_grad() in that order,
\* one batch after the other; no optimizer or scheduler step (and no backward
\* pass) happens in the evaluation batches; over a complete run
\* lr_scheduler.step() is called exactly len(train_dataloader) * num_epochs
\* times, the num_training_steps the schedule was created with.
C14_StepOrderAndCount ==
    /\ \A e \in 0..(NumEpochs - 1) : \A s \in 0..(LenTrainLoader - 1) :
           LET ops == BatchOps(e, s)
           IN  /\ Len(ops) <= Len(ExpectedBatchOrder)
               /\ ops = SubSeq(ExpectedBatchOrder, 1, Len(ops))
    /\ \A p \in LogPos : \A r \in LogPos :
           (/\ p < r
            /\ log[p].mode = "train"
            /\ log[r].mode = "train"
            /\ log[p].epoch = log[r].epoch
            /\ log[p].step = log[r].step) =>
               \A q \in p..r : /\ log[q].mode = "train"
                               /\ log[q].epoch = log[p].epoch
                               /\ log[q].step = log[p].step
    /\ \A p \in LogPos :
           log[p].mode = "eval" => log[p].op \in {"forward", "save_pretrained"}
    /\ optimizer_steps =
           Cardinality({p \in LogPos : log[p].op = "optimizer.step"})
    /\ scheduler_steps =
           Cardinality({p \in LogPos : log[p].op = "lr_scheduler.step"})
    /\ pc # "create_schedule" =>
           num_training_steps = LenTrainLoader * NumEpochs
    /\ Trained =>
           /\ scheduler_steps = LenTrainLoader * NumEpochs
           /\ scheduler_steps = num_training_steps
           /\ optimizer_steps = scheduler_steps
           /\ \A e \in 0..(NumEpochs - 1) : \A s \in 0..(LenTrainLoader - 1) :
                  BatchOps(e, s) = ExpectedBatchOrder

\* a complete run of three training batches per epoch: six scheduler steps
C14_Witness ==
    /\ Trained
    /\ LenTrainLoader = 3
    /\ scheduler_steps = 6
    /\ num_training_steps = 6

=============================================================================
